---- MODULE Spec2Model ----
(***************************************************************************)
(* State-machine model of src/rl_interface/scripts/ppo.py: the rollout     *)
(* Buffer, the RL_algo entry points (choose_action, store_transition,      *)
(* learn_if_buffer_is_full, learn) and the advantage estimator             *)
(* RL_algo._compute_reward.                                                *)
(*                                                                         *)
(* Network parameters are opaque: the actor's parameters are represented   *)
(* by act_theta and the critic's by cri_phi, the number of optimizer steps *)
(* applied to each, so two parameter vectors are equal iff no step lies    *)
(* between them.  Floating point numbers are modelled exactly; rounding is *)
(* not modelled.                                                           *)
(***************************************************************************)
EXTENDS Integers, Sequences, FiniteSets, TLC

(***************************************************************************)
(* Hyper-parameters (ppo.py lines 16-18: batch_size 2^9, buffer_capacity   *)
(* 2^12 + 50, repeat_times 2^4), scaled down so that the state space is    *)
(* finite and small, keeping both a pass with no minibatch                 *)
(* (repeat_times * n < batch_size) and passes with some.                   *)
(***************************************************************************)
buffer_capacity == 3
batch_size == 2
repeat_times == 1

\* Largest number of optimizer steps per network that the model follows.
MaxSteps == 2

\* Longest sequence handed to _compute_reward.
MaxLen == 3

\* Inputs of the calls.
\* (state, noise drawn by torch.randn_like) pairs of choose_action.
SAMPLES == {[state |-> 0, noise |-> 1], [state |-> 1, noise |-> 0]}
\* rewards and critic values handed to _compute_reward.
REWARDS == {0, 1, 2}
VALUES == {-1, 1}
\* (reward, done) pairs handed to store_transition.
FEEDBACK == {[reward |-> 0, done |-> FALSE], [reward |-> 1, done |-> TRUE]}
\* Contents of a tensor that torch.empty() allocated and nobody wrote.
UNINIT == {-7, -8}

VARIABLES
  buffer,        \* RL_algo.buffer: capacity, mem_cntr and the five tensors
  act_theta,     \* parameters of RL_algo.act
  cri_phi,       \* parameters of RL_algo.cri
  pc,            \* position of the control flow inside learn(), or "idle"
  buffer_len,    \* learn(): buffer_len
  i,             \* learn(): loop variable of line 168
  call,          \* the call of the control loop that started last
  outcome,       \* how that call ended: "ok", "running" or the exception
  pending,       \* caller: the (state, action, noise) choose_action returned
  caller,        \* caller: position in the collect loop, or "free"
  stored,        \* history: transitions Buffer.store took since the last empty_buffer()
  cleared,       \* history: empty_buffer() has run
  interleaved,   \* history: the actor was stepped while a pair waited to be stored
  n_backward,    \* history: united.backward() calls of the current pass
  n_act_step,    \* history: act_optimizer.step() calls of the current pass
  n_cri_step,    \* history: cri_optimizer.step() calls of the current pass
  gae_pc,        \* position inside _compute_reward, or "off"
  gae_len,       \* _compute_reward: buffer_len
  gae_rewards,   \* _compute_reward: rewards
  gae_masks,     \* _compute_reward: masks
  gae_value,     \* _compute_reward: value
  gae_i,         \* _compute_reward: loop variable of line 137
  pre_return,    \* _compute_reward: pre_return
  pre_advantage, \* _compute_reward: pre_advantage
  returns,       \* _compute_reward: returns
  advantages     \* _compute_reward: advantages

ppo_vars == <<buffer, act_theta, cri_phi, pc, buffer_len, i, call, outcome, pending,
              caller, stored, cleared, interleaved, n_backward, n_act_step, n_cri_step>>
gae_vars == <<gae_pc, gae_len, gae_rewards, gae_masks, gae_value, gae_i,
              pre_return, pre_advantage, returns, advantages>>
vars == <<ppo_vars, gae_vars>>

(***************************************************************************)
(* Exact arithmetic standing for the float32 arithmetic of lines 127 and   *)
(* 138-150.  A number is a polynomial with integer coefficients in the two *)
(* hyper-parameters gamma (line 8) and lambda_gae_adv (line 12): a         *)
(* function from the monomials <<a, b>>, standing for                      *)
(* gamma^a * lambda_gae_adv^b, with a coefficient other than 0 to that     *)
(* coefficient.  Two numbers that are equal here are equal for every value *)
(* of the two hyper-parameters.                                            *)
(***************************************************************************)
Coef(p, m) == IF m \in DOMAIN p THEN p[m] ELSE 0

Trim(f) == [m \in {x \in DOMAIN f : f[x] # 0} |-> f[m]]

Num(c) == Trim([m \in {<<0, 0>>} |-> c])
Zero == Num(0)

PAdd(p, q) == Trim([m \in DOMAIN p \cup DOMAIN q |-> Coef(p, m) + Coef(q, m)])

PNeg(p) == [m \in DOMAIN p |-> -p[m]]

PSub(p, q) == PAdd(p, PNeg(q))

RECURSIVE Conv(_, _, _, _)
Conv(S, p, q, m) ==
  IF S = {} THEN 0
  ELSE LET a == CHOOSE x \in S : TRUE
       IN  p[a] * Coef(q, <<m[1] - a[1], m[2] - a[2]>>) + Conv(S \ {a}, p, q, m)

PMul(p, q) ==
  Trim([m \in {<<a[1] + b[1], a[2] + b[2]>> : a \in DOMAIN p, b \in DOMAIN q}
          |-> Conv(DOMAIN p, p, q, m)])

gamma == [m \in {<<1, 0>>} |-> 1]
lambda_gae_adv == [m \in {<<0, 1>>} |-> 1]

(***************************************************************************)
(* Buffer (lines 27-55).  Tensors are functions on the slots 0..capacity-1.*)
(***************************************************************************)
Slots == 0 .. buffer_capacity - 1

\* Buffer.__init__: mem_cntr 0, tensors allocated and not written.
Buffer_init(g) ==
  [capacity |-> buffer_capacity,
   mem_cntr |-> 0,
   states   |-> [s \in Slots |-> g],
   actions  |-> [s \in Slots |-> [theta |-> g, state |-> g, noise |-> g]],
   rewards  |-> [s \in Slots |-> g],
   masks    |-> [s \in Slots |-> Num(g)],
   noises   |-> [s \in Slots |-> g]]

\* Buffer.__len__
len(self) == self.mem_cntr

\* Mutant of store_raises: the bound is checked one row too late.
store_raises_late(self) == self.mem_cntr > self.capacity

\* Buffer.store: indexing a tensor of capacity rows with mem_cntr raises
\* IndexError when mem_cntr is not a row, at line 39, before any write.
store_raises(self) == ~(self.mem_cntr \in 0 .. self.capacity - 1)

\* Mutant of store: the cursor is advanced before the rows are written.
store_preincrement(self, state, action, reward, mask, noise) ==
  [self EXCEPT !.states[self.mem_cntr + 1]  = state,
               !.actions[self.mem_cntr + 1] = action,
               !.rewards[self.mem_cntr + 1] = reward,
               !.masks[self.mem_cntr + 1]   = mask,
               !.noises[self.mem_cntr + 1]  = noise,
               !.mem_cntr = self.mem_cntr + 1]

\* Buffer.store, when line 39 does not raise.
store(self, state, action, reward, mask, noise) ==
  [self EXCEPT !.states[self.mem_cntr]  = state,
               !.actions[self.mem_cntr] = action,
               !.rewards[self.mem_cntr] = reward,
               !.masks[self.mem_cntr]   = mask,
               !.noises[self.mem_cntr]  = noise,
               !.mem_cntr = self.mem_cntr + 1]

\* tensor[:k]
Slice(tensor, k) ==
  [j \in {s \in DOMAIN tensor : s < k} |-> tensor[j]]

\* Buffer.sample_all
sample_all(self) ==
  [states  |-> Slice(self.states, self.mem_cntr),
   actions |-> Slice(self.actions, self.mem_cntr),
   rewards |-> Slice(self.rewards, self.mem_cntr),
   masks   |-> Slice(self.masks, self.mem_cntr),
   noises  |-> Slice(self.noises, self.mem_cntr)]

\* Mutant of empty_buffer: the cursor is left where it is.
empty_buffer_noop(self) == self

\* Buffer.empty_buffer
empty_buffer(self) == [self EXCEPT !.mem_cntr = 0]

(***************************************************************************)
(* Actor.get_action_noise (lines 73-84): action = net(state) + noise * std.*)
(* The value is kept as the term it is computed from: the parameters, the  *)
(* state and the noise.                                                    *)
(***************************************************************************)
\* Mutant of get_action_noise: the action is sampled from the parameters
\* the actor was constructed with.
get_action_noise_stale(theta, state, noise) ==
  [state  |-> state,
   action |-> [theta |-> 0, state |-> state, noise |-> noise],
   noise  |-> noise]

get_action_noise(theta, state, noise) ==
  [state  |-> state,
   action |-> [theta |-> theta, state |-> state, noise |-> noise],
   noise  |-> noise]

NoPair == [state |-> -1, action |-> [theta |-> -1, state |-> -1, noise |-> -1], noise |-> -1]

\* store_transition (line 127): the mask folds done and the discount.
Mask(done) == IF done THEN Zero ELSE gamma

\* Mutant of ready_to_learn: one episode too late.
ready_to_learn_late(self, max_episode_len) ==
  buffer_capacity - len(self) + 1 < max_episode_len

\* Mutant of ready_to_learn: <= for <.
ready_to_learn_inclusive(self, max_episode_len) ==
  buffer_capacity - len(self) <= max_episode_len

\* learn_if_buffer_is_full (line 154)
ready_to_learn(self, max_episode_len) ==
  buffer_capacity - len(self) < max_episode_len

\* Mutant of n_iterations: rounded up.
n_iterations_ceil(n) == (repeat_times * n + batch_size - 1) \div batch_size

\* learn (line 168): int(repeat_times * buffer_len / batch_size)
n_iterations(n) == (repeat_times * n) \div batch_size

\* Mutant of learn_raises: a single transition is rejected too.
learn_raises_single(n) == n <= 1

\* learn (line 162): torch.cat of an empty list raises RuntimeError, and the
\* list is empty exactly when the buffer holds no state.
learn_raises(n) == n = 0

(***************************************************************************)
(* RL_algo: the calls of the external control loop.  The loop is           *)
(* sequential, so a call starts only when no learn() pass is running.      *)
(***************************************************************************)
PpoInit ==
  /\ \E g \in UNINIT : buffer = Buffer_init(g)
  /\ act_theta = 0
  /\ cri_phi = 0
  /\ pc = "idle"
  /\ buffer_len = 0
  /\ i = 0
  /\ call = "__init__"
  /\ outcome = "ok"
  /\ pending = NoPair
  /\ stored = <<>>
  /\ cleared = FALSE
  /\ interleaved = FALSE
  /\ n_backward = 0
  /\ n_act_step = 0
  /\ n_cri_step = 0

\* choose_action (lines 121-124)
ChooseAction(state, noise) ==
  /\ pc = "idle"
  /\ pending' = get_action_noise(act_theta, state, noise)
  /\ call' = "choose_action"
  /\ outcome' = "ok"
  /\ UNCHANGED <<buffer, act_theta, cri_phi, pc, buffer_len, i, stored, cleared,
                 interleaved, n_backward, n_act_step, n_cri_step>>

\* store_transition (lines 126-127) of the pair choose_action returned,
\* with Buffer.store (lines 38-45)
StoreTransition(reward, done) ==
  /\ pc = "idle"
  /\ pending # NoPair
  /\ IF store_raises(buffer)
       THEN /\ outcome' = "IndexError"
            /\ UNCHANGED <<buffer, stored>>
       ELSE /\ buffer' = store(buffer, pending.state, pending.action, reward,
                               Mask(done), pending.noise)
            /\ stored' = Append(stored, [state  |-> pending.state,
                                         action |-> pending.action,
                                         reward |-> reward,
                                         mask   |-> Mask(done),
                                         noise  |-> pending.noise])
            /\ outcome' = "ok"
  /\ pending' = NoPair
  /\ call' = "store_transition"
  /\ UNCHANGED <<act_theta, cri_phi, pc, buffer_len, i, cleared, interleaved,
                 n_backward, n_act_step, n_cri_step>>

\* learn, lines 159-166: the frozen part of the pass.  The tensors it
\* computes are local to the pass; _compute_reward is modelled below.
\* The first conjunct is the bound MaxSteps on the passes followed.
learn_enter ==
  /\ act_theta + n_iterations(len(buffer)) <= MaxSteps
  /\ IF learn_raises(len(buffer))
       THEN /\ outcome' = "RuntimeError"
            /\ UNCHANGED <<pc, buffer_len, i, n_backward, n_act_step, n_cri_step>>
       ELSE /\ buffer_len' = len(buffer)
            /\ i' = 0
            /\ n_backward' = 0
            /\ n_act_step' = 0
            /\ n_cri_step' = 0
            /\ pc' = "loop"
            /\ outcome' = "running"
  /\ UNCHANGED <<buffer, act_theta, cri_phi, pending, stored, cleared, interleaved>>

\* learn (line 158), called by the control loop
Learn ==
  /\ pc = "idle"
  /\ call' = "learn"
  /\ learn_enter

\* learn_if_buffer_is_full (lines 153-156)
LearnIfBufferIsFull(max_episode_len) ==
  /\ pc = "idle"
  /\ call' = "learn_if_buffer_is_full"
  /\ IF ready_to_learn(buffer, max_episode_len)
       THEN learn_enter
       ELSE /\ outcome' = "ok"
            /\ UNCHANGED <<buffer, act_theta, cri_phi, pc, buffer_len, i, pending,
                           stored, cleared, interleaved, n_backward, n_act_step,
                           n_cri_step>>

\* learn, lines 168-204: one more minibatch is drawn (torch.randint over
\* buffer_len), the united objective is computed, both gradients are
\* zeroed and united.backward() runs.
LearnMinibatch ==
  /\ pc = "loop"
  /\ i < n_iterations(buffer_len)
  /\ \E indices \in [0 .. batch_size - 1 -> 0 .. buffer_len - 1] :
        \A k \in DOMAIN indices : indices[k] < len(buffer)
  /\ n_backward' = n_backward + 1
  /\ pc' = "act_step"
  /\ UNCHANGED <<buffer, act_theta, cri_phi, buffer_len, i, call, outcome, pending,
                 stored, cleared, interleaved, n_act_step, n_cri_step>>

\* learn, line 205: act_optimizer.step()
LearnActStep ==
  /\ pc = "act_step"
  /\ act_theta' = act_theta + 1
  /\ n_act_step' = n_act_step + 1
  /\ pc' = "cri_step"
  /\ interleaved' = (interleaved \/ pending # NoPair)
  /\ UNCHANGED <<buffer, cri_phi, buffer_len, i, call, outcome, pending, stored,
                 cleared, n_backward, n_cri_step>>

\* learn, line 206: cri_optimizer.step(), and the loop goes on
LearnCriStep ==
  /\ pc = "cri_step"
  /\ cri_phi' = cri_phi + 1
  /\ n_cri_step' = n_cri_step + 1
  /\ i' = i + 1
  /\ pc' = "loop"
  /\ UNCHANGED <<buffer, act_theta, buffer_len, call, outcome, pending, stored,
                 cleared, interleaved, n_backward, n_act_step>>

\* learn, line 207: the loop is over, the buffer is emptied, learn returns
LearnExit ==
  /\ pc = "loop"
  /\ ~(i < n_iterations(buffer_len))
  /\ buffer' = empty_buffer(buffer)
  /\ stored' = <<>>
  /\ cleared' = TRUE
  /\ buffer_len' = 0
  /\ i' = 0
  /\ n_backward' = 0
  /\ n_act_step' = 0
  /\ n_cri_step' = 0
  /\ pc' = "idle"
  /\ outcome' = "ok"
  /\ UNCHANGED <<act_theta, cri_phi, call, pending, interleaved>>

LearnStep == LearnMinibatch \/ LearnActStep \/ LearnCriStep \/ LearnExit

\* _compute_reward is not running.
GaeOff ==
  /\ gae_pc = "off"
  /\ gae_len = 0
  /\ gae_rewards = <<>>
  /\ gae_masks = <<>>
  /\ gae_value = <<>>
  /\ gae_i = 0
  /\ pre_return = Zero
  /\ pre_advantage = Zero
  /\ returns = <<>>
  /\ advantages = <<>>

(***************************************************************************)
(* Spec: the four calls in any order.                                      *)
(***************************************************************************)
Init ==
  /\ PpoInit
  /\ caller = "free"
  /\ GaeOff

Next ==
  \/ /\ \E x \in SAMPLES : ChooseAction(x.state, x.noise)
     /\ UNCHANGED <<caller, gae_vars>>
  \/ /\ \E f \in FEEDBACK : StoreTransition(f.reward, f.done)
     /\ UNCHANGED <<caller, gae_vars>>
  \/ /\ Learn
     /\ UNCHANGED <<caller, gae_vars>>
  \/ /\ \E max_episode_len \in 1 .. buffer_capacity + 1 :
           LearnIfBufferIsFull(max_episode_len)
     /\ UNCHANGED <<caller, gae_vars>>
  \/ /\ LearnMinibatch
     /\ UNCHANGED <<caller, gae_vars>>
  \/ /\ LearnActStep
     /\ UNCHANGED <<caller, gae_vars>>
  \/ /\ LearnCriStep
     /\ UNCHANGED <<caller, gae_vars>>
  \/ /\ LearnExit
     /\ UNCHANGED <<caller, gae_vars>>

Spec == Init /\ [][Next]_vars

(***************************************************************************)
(* SpecLoop: the collect loop the class is written for.  Each              *)
(* choose_action is followed by the store_transition of its pair and that  *)
(* by learn_if_buffer_is_full with 1 <= max_episode_len <= buffer_capacity;*)
(* between two rounds the loop may also call learn() itself.               *)
(***************************************************************************)
InitLoop ==
  /\ PpoInit
  /\ caller = "choose"
  /\ GaeOff

NextLoop ==
  \/ /\ caller = "choose"
     /\ \E x \in SAMPLES : ChooseAction(x.state, x.noise)
     /\ caller' = "store"
     /\ UNCHANGED gae_vars
  \/ /\ caller = "store"
     /\ \E f \in FEEDBACK : StoreTransition(f.reward, f.done)
     /\ caller' = "check"
     /\ UNCHANGED gae_vars
  \/ /\ caller = "check"
     /\ \E max_episode_len \in 1 .. buffer_capacity :
           LearnIfBufferIsFull(max_episode_len)
     /\ caller' = "choose"
     /\ UNCHANGED gae_vars
  \/ /\ caller = "choose"
     /\ Learn
     /\ UNCHANGED <<caller, gae_vars>>
  \/ /\ LearnMinibatch
     /\ UNCHANGED <<caller, gae_vars>>
  \/ /\ LearnActStep
     /\ UNCHANGED <<caller, gae_vars>>
  \/ /\ LearnCriStep
     /\ UNCHANGED <<caller, gae_vars>>
  \/ /\ LearnExit
     /\ UNCHANGED <<caller, gae_vars>>

SpecLoop == InitLoop /\ [][NextLoop]_vars

(***************************************************************************)
(* RL_algo._compute_reward (lines 130-151), one action per loop iteration. *)
(* Tensors are functions on 0..buffer_len-1.                               *)
(***************************************************************************)
\* line 138
gae_return(reward, mask, pre_ret) == PAdd(reward, PMul(mask, pre_ret))

\* Mutant of gae_advantage: the baseline is not subtracted.
gae_advantage_no_baseline(reward, mask, pre_adv, v) ==
  PAdd(reward, PMul(mask, pre_adv))

\* line 146
gae_advantage(reward, mask, pre_adv, v) ==
  PSub(PAdd(reward, PMul(mask, pre_adv)), v)

\* Mutant of gae_pre_advantage: lambda_gae_adv is left out.
gae_pre_advantage_no_lambda(v, adv) == PAdd(v, adv)

\* line 147
gae_pre_advantage(v, adv) == PAdd(v, PMul(adv, lambda_gae_adv))

\* line 137: range(buffer_len - 1, -1, -1) starts at buffer_len - 1 ...
gae_first(n) == n - 1

\* ... and steps by -1
gae_next(k) == k - 1

RECURSIVE TensorSum(_, _)
TensorSum(t, n) == IF n = 0 THEN Zero ELSE PAdd(TensorSum(t, n - 1), t[n - 1])

\* n * (t[j] - t.mean())
centered(t, j, n) == PSub(PMul(Num(n), t[j]), TensorSum(t, n))

(***************************************************************************)
(* line 150: (advantages - advantages.mean()) / (advantages.std() + 1e-5). *)
(* Entry j of the result is kept as [num, n, dof]: it stands for           *)
(* (num / n) / (std + 1e-5), where num / n is advantages[j] - mean and std *)
(* is the sample standard deviation torch computes by default,             *)
(* sqrt(sum of the squared differences / dof) with dof = n - 1.  With      *)
(* dof = 0 the standard deviation is 0/0 and every entry is NaN.           *)
(***************************************************************************)
standard_score(t, n) ==
  [j \in 0 .. n - 1 |-> [num |-> centered(t, j, n), n |-> n, dof |-> n - 1]]

IsNaN(a) == a.dof = 0

GaeInputs ==
  /\ gae_pc = "call"
  /\ gae_len \in 1 .. MaxLen
  /\ gae_rewards \in [0 .. gae_len - 1 -> {Num(r) : r \in REWARDS}]
  /\ gae_masks \in [0 .. gae_len - 1 -> {Mask(TRUE), Mask(FALSE)}]
  /\ gae_value \in [0 .. gae_len - 1 -> {Num(v) : v \in VALUES}]
  /\ gae_i = 0
  /\ pre_return = Zero
  /\ pre_advantage = Zero
  /\ returns = <<>>
  /\ advantages = <<>>

\* lines 132-136, and the loop variable takes its first value
ComputeRewardEnter ==
  /\ gae_pc = "call"
  /\ \E g \in UNINIT :
        /\ returns' = [j \in 0 .. gae_len - 1 |-> Num(g)]
        /\ advantages' = [j \in 0 .. gae_len - 1 |-> Num(g)]
  /\ pre_return' = Zero
  /\ pre_advantage' = Zero
  /\ gae_i' = gae_first(gae_len)
  /\ gae_pc' = "loop"
  /\ UNCHANGED <<gae_len, gae_rewards, gae_masks, gae_value>>

\* lines 137-147: one iteration of the loop
ComputeRewardLoop ==
  /\ gae_pc = "loop"
  /\ gae_i > -1
  /\ LET ret == gae_return(gae_rewards[gae_i], gae_masks[gae_i], pre_return)
         adv == gae_advantage(gae_rewards[gae_i], gae_masks[gae_i],
                              pre_advantage, gae_value[gae_i])
     IN  /\ returns' = [returns EXCEPT ![gae_i] = ret]
         /\ pre_return' = ret
         /\ advantages' = [advantages EXCEPT ![gae_i] = adv]
         /\ pre_advantage' = gae_pre_advantage(gae_value[gae_i], adv)
  /\ gae_i' = gae_next(gae_i)
  /\ UNCHANGED <<gae_pc, gae_len, gae_rewards, gae_masks, gae_value>>

\* lines 150-151: the loop is over, the standard score is taken and returned
ComputeRewardReturn ==
  /\ gae_pc = "loop"
  /\ ~(gae_i > -1)
  /\ advantages' = standard_score(advantages, gae_len)
  /\ gae_pc' = "return"
  /\ UNCHANGED <<gae_len, gae_rewards, gae_masks, gae_value, gae_i, pre_return,
                 pre_advantage, returns>>

(***************************************************************************)
(* SpecGae: _compute_reward applied to every input within the bounds.      *)
(***************************************************************************)
InitGae ==
  /\ PpoInit
  /\ caller = "free"
  /\ GaeInputs

NextGae ==
  \/ ComputeRewardEnter /\ UNCHANGED ppo_vars
  \/ ComputeRewardLoop /\ UNCHANGED ppo_vars
  \/ ComputeRewardReturn /\ UNCHANGED ppo_vars

SpecGae == InitGae /\ [][NextGae]_vars

(***************************************************************************)
(* Claims.                                                                 *)
(***************************************************************************)
\* floor(repeat_times * n / batch_size) = k, without \div
IsFloorOfIterations(k, n) ==
  /\ k * batch_size <= repeat_times * n
  /\ repeat_times * n < (k + 1) * batch_size

\* sample_all() returns exactly the transitions in `stored`, in their order
SampleIsStored ==
  LET s == sample_all(buffer)
      k == Len(stored)
  IN  /\ DOMAIN s.states = 0 .. k - 1
      /\ DOMAIN s.actions = 0 .. k - 1
      /\ DOMAIN s.rewards = 0 .. k - 1
      /\ DOMAIN s.masks = 0 .. k - 1
      /\ DOMAIN s.noises = 0 .. k - 1
      /\ \A j \in 0 .. k - 1 :
            /\ s.states[j] = stored[j + 1].state
            /\ s.actions[j] = stored[j + 1].action
            /\ s.rewards[j] = stored[j + 1].reward
            /\ s.masks[j] = stored[j + 1].mask
            /\ s.noises[j] = stored[j + 1].noise

\* C1 (SpecLoop): when learn_if_buffer_is_full(max_episode_len), with
\* 1 <= max_episode_len <= buffer_capacity, follows every store_transition,
\* 0 <= mem_cntr <= capacity in every reachable state, no store has raised,
\* and whenever a store is about to be invoked mem_cntr is not capacity.
C1_CursorWithinCapacity ==
  /\ buffer.mem_cntr \in 0 .. buffer.capacity
  /\ outcome # "IndexError"
  /\ caller = "store" => buffer.mem_cntr # buffer.capacity

\* C1 witness: a store has filled the last row and the check comes next.
C1_Witness ==
  /\ caller = "check"
  /\ call = "store_transition"
  /\ buffer.mem_cntr = buffer.capacity

\* C2 (Spec): after k <= capacity stores into the buffer as constructed,
\* sample_all() returns exactly k entries per field, entry i of each field
\* being the value passed to the (i+1)-th store.
C2_SampleAllInInsertionOrder ==
  ~cleared => (Len(stored) <= buffer.capacity /\ SampleIsStored)

\* C2 witness: capacity stores, not all of the same transition.
C2_Witness ==
  /\ ~cleared
  /\ Len(stored) = buffer.capacity
  /\ stored[1] # stored[2]
  /\ call = "store_transition"
  /\ outcome = "ok"

\* C3 (Spec): once empty_buffer() has run, the size is the number of
\* transitions stored since (0 right after it), the first of them is in
\* row 0, and sample_all() returns those transitions only.
C3_ClearThenStore ==
  cleared =>
    /\ len(buffer) = Len(stored)
    /\ SampleIsStored
    /\ Len(stored) > 0 =>
          /\ buffer.states[0] = stored[1].state
          /\ buffer.actions[0] = stored[1].action
          /\ buffer.rewards[0] = stored[1].reward
          /\ buffer.masks[0] = stored[1].mask
          /\ buffer.noises[0] = stored[1].noise

\* C3 witness: one store after a clear, over a row written before the clear
\* with another state, and an older row still behind the cursor.
C3_Witness ==
  /\ cleared
  /\ len(buffer) = 1
  /\ call = "store_transition"
  /\ ~(buffer.states[1] \in UNINIT)
  /\ buffer.states[1] # buffer.states[0]

\* C4 (Spec): a store invoked with mem_cntr = capacity ends in an error and
\* leaves mem_cntr and every row of every field as they were.
C4_FullStoreRaises ==
  [][\A f \in FEEDBACK :
        (StoreTransition(f.reward, f.done) /\ buffer.mem_cntr = buffer.capacity)
          => (outcome' = "IndexError" /\ buffer' = buffer)]_vars

\* C4 witness: a store was refused on a full buffer.
C4_Witness ==
  /\ call = "store_transition"
  /\ outcome = "IndexError"
  /\ buffer.mem_cntr = buffer.capacity

\* C5 (Spec): learn() called with 1 <= n <= capacity transitions starts its
\* pass; at every position of the pass no exception was raised and a next
\* step can be taken; the pass ends with the buffer size 0 and no error.
C5_LearnCompletes ==
  /\ [](pc # "idle" => /\ outcome = "running"
                       /\ buffer_len \in 1 .. buffer.capacity
                       /\ ENABLED LearnStep)
  /\ [][/\ (Learn /\ len(buffer) \in 1 .. buffer.capacity)
             => (pc' = "loop" /\ outcome' = "running")
        /\ (pc # "idle" /\ pc' = "idle")
             => (len(buffer') = 0 /\ outcome' = "ok")]_vars

\* C5 witness: a pass over a full buffer has run all its iterations.
C5_Witness ==
  /\ pc = "loop"
  /\ buffer_len = buffer.capacity
  /\ i > 0
  /\ IsFloorOfIterations(i, buffer_len)

\* C8 (Spec): learn_if_buffer_is_full(max_episode_len) enters learn() iff
\* capacity - size < max_episode_len, and otherwise leaves the buffer and
\* both networks' parameters unchanged.
C8_LearnIffNoRoom ==
  [][\A m \in 1 .. buffer_capacity + 1 :
        LearnIfBufferIsFull(m) =>
          /\ (buffer.capacity - buffer.mem_cntr < m)
                <=> (pc' = "loop" \/ outcome' = "RuntimeError")
          /\ ~(buffer.capacity - buffer.mem_cntr < m)
                => /\ buffer' = buffer
                   /\ act_theta' = act_theta
                   /\ cri_phi' = cri_phi
                   /\ pc' = "idle"]_vars

\* C8 witness: learn_if_buffer_is_full started a pass over a buffer that
\* was not full.
C8_Witness ==
  /\ call = "learn_if_buffer_is_full"
  /\ pc = "loop"
  /\ buffer_len < buffer.capacity

BufferOnPolicy ==
  \A j \in 0 .. len(buffer) - 1 : buffer.actions[j].theta = act_theta

\* C10 as stated (Spec): under any interleaving of choose_action,
\* store_transition of the pair choose_action returned last, and learn(),
\* every transition in the buffer at the start of a pass was sampled with
\* the actor parameters current at that moment.
C10_AsStated ==
  (pc = "loop" /\ i = 0) => BufferOnPolicy

\* C10 amended (Spec): the same, as long as no pass has stepped the actor
\* optimizer between a choose_action and the store_transition of its pair.
C10_OnPolicyUnlessInterleaved ==
  ~interleaved => ((pc = "idle" \/ (pc = "loop" /\ i = 0)) => BufferOnPolicy)

\* C10 witness: a pass starts on transitions collected after an update.
C10_Witness ==
  /\ ~interleaved
  /\ pc = "loop"
  /\ i = 0
  /\ act_theta > 0
  /\ len(buffer) > 1

\* masks[j] * ... * masks[k-1]
RECURSIVE MaskProduct(_, _)
MaskProduct(j, k) ==
  IF k <= j THEN Num(1) ELSE PMul(MaskProduct(j, k - 1), gae_masks[k - 1])

\* the sum over l in j..k of rewards[l] * masks[j] * ... * masks[l-1]
RECURSIVE DiscountedSum(_, _)
DiscountedSum(j, k) ==
  IF k < j THEN Zero
  ELSE PAdd(DiscountedSum(j, k - 1), PMul(gae_rewards[k], MaskProduct(j, k)))

Unwritten == {Num(g) : g \in UNINIT}

\* the input is the sequence of one terminal transition
OneTerminalStep == gae_len = 1 /\ gae_masks[0] = Zero

\* A necessary condition for the standard score a, (a.num / a.n) / (std +
\* 1e-5), to equal the number q: it is a number, and it is 0 iff q is.
ScoreMayEqual(a, q) == ~IsNaN(a) /\ (a.num = Zero <=> q = Zero)

C7_BackwardRecursion ==
  LET n == gae_len
      last == n - 1
  IN  /\ gae_pc = "loop" =>
            /\ gae_i \in -1 .. last
            /\ \A j \in 0 .. last :
                  IF j > gae_i
                    THEN /\ returns[j] =
                              PAdd(gae_rewards[j],
                                   PMul(gae_masks[j],
                                        IF j = last THEN Zero ELSE returns[j + 1]))
                         /\ advantages[j] =
                              PSub(PAdd(gae_rewards[j],
                                        PMul(gae_masks[j],
                                             IF j = last THEN Zero
                                             ELSE PAdd(gae_value[j + 1],
                                                       PMul(lambda_gae_adv,
                                                            advantages[j + 1])))),
                                   gae_value[j])
                    ELSE /\ returns[j] \in Unwritten
                         /\ advantages[j] \in Unwritten
      /\ (gae_pc = "return" \/ (gae_pc = "loop" /\ gae_i < 0)) =>
            /\ \A j \in 0 .. last :
                  /\ returns[j] = DiscountedSum(j, last)
                  /\ gae_masks[j] = Zero => returns[j] = gae_rewards[j]
            /\ (/\ n = 2
                /\ gae_rewards = [j \in 0 .. 1 |-> Num(1)]
                /\ gae_masks[0] = gamma
                /\ gae_masks[1] = Zero) =>
                  /\ returns[1] = Num(1)
                  /\ returns[0] = PAdd(Num(1), gamma)

\* C7 witness: the loop has ended on rewards [1,1], masks [gamma,0].
C7_Witness ==
  /\ gae_pc = "loop"
  /\ gae_i = -1
  /\ gae_len = 2
  /\ gae_rewards = [j \in 0 .. 1 |-> Num(1)]
  /\ gae_masks[0] = gamma
  /\ gae_masks[1] = Zero
  /\ returns[0] = PAdd(Num(1), gamma)

====
